---- MODULE Spec2Model ----
(***************************************************************************)
(* Model of pipecatmem0.py: the latency benchmark of the mem0 client.      *)
(*                                                                         *)
(* One coroutine runs: test_ultra_optimized (the entry point) or           *)
(* benchmark_original_vs_optimized.  Every `await client.search(...)` is   *)
(* two steps, the issue of the request and its completion; a completion    *)
(* returns, raises an Exception ("error") or raises a BaseException that   *)
(* is no Exception ("cancelled": asyncio.CancelledError when the task is   *)
(* cancelled, e.g. on Ctrl-C under asyncio.run).                           *)
(*                                                                         *)
(* Time is counted in centiseconds.  time() differences are exact          *)
(* multiples of the clock's resolution and a sum of at most five of them   *)
(* is exact, so the averages are modelled as exact rationals [num, den].   *)
(***************************************************************************)
EXTENDS Integers, Sequences, FiniteSets, TLC

\* Longest list of samples given to the statistics on their own.
MaxSamples == 4

\* Longest request, in units of 7 centiseconds.
MaxDelay == 3

\* range(5) of test_ultra_optimized, range(3) of both benchmark loops.
UltraRequests == 5
OriginalRequests == 3
OptimizedRequests == 3

\* 0.15 s and 0.21 s, in centiseconds.
TargetLatency == 15
OriginalLatency == 21

Delays == {7 * k : k \in 1..MaxDelay}

Lists == {"latencies", "original_latencies", "optimized_latencies"}
Clients == {"client", "original_client", "optimized_client"}
Runs == {"test_ultra_optimized", "benchmark_original_vs_optimized"}

VARIABLES
    run,        \* the coroutine being run
    pc,         \* its position
    loop,       \* the list the current (or next) measurement loop appends to
    i,          \* the loop variable
    clients,    \* client -> "unbuilt" | "open" | "closed"
    closes,     \* client -> number of aclose() calls
    inflight,   \* requests issued and not yet completed
    now,        \* the clock read by time()
    start,      \* the local `start`
    samples,    \* list name -> the list's contents
    warm,       \* what warm_up_connection returned: "unset", "True", "False"
    exc,        \* the exception propagating out of the coroutine, or "none"
    report,     \* the statistics and the verdict printed
    exitcode,   \* the process exit status once the run is over, -1 before
    log,        \* history: every completed request, in order
    issued,     \* history: list name -> measured requests issued
    usedClosed  \* history: a request was issued through a closed client

vars == <<run, pc, loop, i, clients, closes, inflight, now, start, samples,
          warm, exc, report, exitcode, log, issued, usedClosed>>

-----------------------------------------------------------------------------
\* Exact rationals for the float arithmetic of the statistics.

Rat(n, d) == [num |-> n, den |-> d]
RInt(n) == Rat(n, 1)
RSub(a, b) == Rat(a.num * b.den - b.num * a.den, a.den * b.den)
RMul(a, b) == Rat(a.num * b.num, a.den * b.den)
RDiv(a, b) == Rat(a.num * b.den, a.den * b.num)
RLess(a, b) == a.num * b.den < b.num * a.den
RLeq(a, b) == a.num * b.den <= b.num * a.den
REq(a, b) == a.num * b.den = b.num * a.den
Unbound == Rat(0, 0)

RECURSIVE sum(_)
sum(s) == IF Len(s) = 0 THEN 0 ELSE Head(s) + sum(Tail(s))

first(s) == s[1]
min(s) == CHOOSE x \in {s[k] : k \in 1..Len(s)} : \A k \in 1..Len(s) : x <= s[k]
max(s) == CHOOSE x \in {s[k] : k \in 1..Len(s)} : \A k \in 1..Len(s) : x >= s[k]

\* avg_latency = sum(latencies) / len(latencies); min(latencies); max(latencies)
aggregate(latencies) ==
    [avg_latency |-> RDiv(RInt(sum(latencies)), RInt(Len(latencies))),
     min_latency |-> min(latencies),
     max_latency |-> max(latencies)]

\* `if latencies:` - a list is true when it is not empty.
AlwaysTrue(s) == TRUE
Truthy(s) == Len(s) > 0

\* latencies.append(latency)
Prepend(s, latency) == <<latency>> \o s
append(s, latency) == Append(s, latency)

-----------------------------------------------------------------------------
\* Where each loop lives.

ClientOf(L) ==
    CASE L = "latencies" -> "client"
      [] L = "original_latencies" -> "original_client"
      [] L = "optimized_latencies" -> "optimized_client"

RequestsOf(L) ==
    CASE L = "latencies" -> UltraRequests
      [] L = "original_latencies" -> OriginalRequests
      [] L = "optimized_latencies" -> OptimizedRequests

\* `except Exception` around the request: warm_up_connection and both loops of
\* the benchmark have one, the loop of test_ultra_optimized has none.
CatchesNothing(site, e) == FALSE
Catches(site, e) ==
    /\ site \in {"warm_up_connection", "original_latencies", "optimized_latencies"}
    /\ e = "error"

\* An awaited request leaves the set of requests in flight when it completes.
NotAwaited(fl, r) == fl
Awaited(fl, r) == fl \ {r}

\* aclose() on a client.
NotClosed(cs, c) == cs
aclose(cs, c) == [cs EXCEPT ![c] = "closed"]

\* asyncio.run / the interpreter: status 0 unless an exception escapes.
ExitCodeByVerdict(e, verdict) == IF e = "none" /\ verdict # "NO_IMPROVEMENT" THEN 0 ELSE 1
ExitCode(e, verdict) == IF e = "none" THEN 0 ELSE 1

NoReport ==
    [bound |-> FALSE, avg_latency |-> Unbound, min_latency |-> 0, max_latency |-> 0,
     orig_avg |-> Unbound, opt_avg |-> Unbound,
     verdict |-> "none", improvement |-> Unbound]

-----------------------------------------------------------------------------
Init ==
    /\ run \in Runs
    /\ pc = "create"
    /\ loop = "latencies"
    /\ i = 0
    /\ clients = [c \in Clients |-> "unbuilt"]
    /\ closes = [c \in Clients |-> 0]
    /\ inflight = {}
    /\ now = 0
    /\ start = 0
    /\ samples = [L \in Lists |-> <<>>]
    /\ warm = "unset"
    /\ exc = "none"
    /\ report = NoReport
    /\ exitcode = -1
    /\ log = <<>>
    /\ issued = [L \in Lists |-> 0]
    /\ usedClosed = FALSE

\* The request the coroutine is waiting for.
Request(kind) == [client |-> ClientOf(loop), kind |-> kind, k |-> i]

Entry(kind, outcome, latency) ==
    [list |-> loop, kind |-> kind, k |-> i, outcome |-> outcome, latency |-> latency]

\* An exception leaves the coroutine: through the finally block in
\* test_ultra_optimized, straight out of benchmark_original_vs_optimized.
Propagate(e) ==
    /\ exc' = e
    /\ IF run = "test_ultra_optimized"
         THEN pc' = "finally" /\ exitcode' = exitcode
         ELSE pc' = "done" /\ exitcode' = ExitCode(e, report.verdict)

\* client = create_ultra_optimized_client(...)
CreateClient ==
    /\ pc = "create" /\ run = "test_ultra_optimized"
    /\ clients' = [clients EXCEPT !["client"] = "open"]
    /\ loop' = "latencies"
    /\ pc' = "warm_issue"
    /\ UNCHANGED <<run, i, closes, inflight, now, start, samples, warm, exc,
                   report, exitcode, log, issued, usedClosed>>

\* original_client = AsyncMemoryClient(api_key=api_key); original_latencies = []
CreateOriginal ==
    /\ pc = "create" /\ run = "benchmark_original_vs_optimized"
    /\ clients' = [clients EXCEPT !["original_client"] = "open"]
    /\ loop' = "original_latencies"
    /\ i' = 0
    /\ pc' = "loop_head"
    /\ UNCHANGED <<run, closes, inflight, now, start, samples, warm, exc,
                   report, exitcode, log, issued, usedClosed>>

\* optimized_client = create_ultra_optimized_client(api_key)
CreateOptimized ==
    /\ pc = "create_optimized"
    /\ clients' = [clients EXCEPT !["optimized_client"] = "open"]
    /\ loop' = "optimized_latencies"
    /\ pc' = "warm_issue"
    /\ UNCHANGED <<run, i, closes, inflight, now, start, samples, warm, exc,
                   report, exitcode, log, issued, usedClosed>>

\* warm_up_connection: start = time(); await client.search(...) is issued.
WarmIssue ==
    /\ pc = "warm_issue"
    /\ start' = now
    /\ inflight' = inflight \cup {Request("warmup")}
    /\ usedClosed' = (usedClosed \/ clients[ClientOf(loop)] # "open")
    /\ pc' = "warm_await"
    /\ UNCHANGED <<run, loop, i, clients, closes, now, samples, warm, exc,
                   report, exitcode, log, issued>>

\* The warm-up request returns: end = time(); return True.  The caller goes on
\* to `latencies = []` and the loop.
WarmReturn ==
    /\ pc = "warm_await"
    /\ \E d \in Delays :
         /\ now' = now + d
         /\ log' = Append(log, Entry("warmup", "ok", (now + d) - start))
    /\ inflight' = Awaited(inflight, Request("warmup"))
    /\ warm' = "True"
    /\ i' = 0
    /\ pc' = "loop_head"
    /\ UNCHANGED <<run, loop, clients, closes, start, samples, exc, report,
                   exitcode, issued, usedClosed>>

\* The warm-up request raises: `except Exception` returns False, anything else
\* propagates to the caller.
WarmRaise ==
    /\ pc = "warm_await"
    /\ inflight' = Awaited(inflight, Request("warmup"))
    /\ \E e \in {"error", "cancelled"} :
         /\ log' = Append(log, Entry("warmup", e, 0))
         /\ IF Catches("warm_up_connection", e)
              THEN /\ warm' = "False"
                   /\ i' = 0
                   /\ pc' = "loop_head"
                   /\ UNCHANGED <<exc, exitcode>>
              ELSE /\ Propagate(e)
                   /\ UNCHANGED <<warm, i>>
    /\ UNCHANGED <<run, loop, clients, closes, now, start, samples, report,
                   issued, usedClosed>>

\* for i in range(n): start = time(); await client.search(...) is issued.
LoopIssue ==
    /\ pc = "loop_head"
    /\ i < RequestsOf(loop)
    /\ start' = now
    /\ inflight' = inflight \cup {Request("measured")}
    /\ issued' = [issued EXCEPT ![loop] = @ + 1]
    /\ usedClosed' = (usedClosed \/ clients[ClientOf(loop)] # "open")
    /\ pc' = "loop_await"
    /\ UNCHANGED <<run, loop, i, clients, closes, now, samples, warm, exc,
                   report, exitcode, log>>

\* The measured request returns.
LoopReturn ==
    /\ pc = "loop_await"
    /\ \E d \in Delays : now' = now + d
    /\ inflight' = Awaited(inflight, Request("measured"))
    /\ pc' = "loop_end"
    /\ UNCHANGED <<run, loop, i, clients, closes, start, samples, warm, exc,
                   report, exitcode, log, issued, usedClosed>>

\* end = time(); latency = end - start; <list>.append(latency); next i.
LoopRecord ==
    /\ pc = "loop_end"
    /\ LET end == now
           latency == end - start
       IN /\ samples' = [samples EXCEPT ![loop] = append(@, latency)]
          /\ log' = Append(log, Entry("measured", "ok", latency))
    /\ i' = i + 1
    /\ pc' = "loop_head"
    /\ UNCHANGED <<run, loop, clients, closes, inflight, now, start, warm, exc,
                   report, exitcode, issued, usedClosed>>

\* The measured request raises: the benchmark's `except Exception` prints and
\* goes on with the next i; otherwise the exception propagates.
LoopRaise ==
    /\ pc = "loop_await"
    /\ inflight' = Awaited(inflight, Request("measured"))
    /\ \E e \in {"error", "cancelled"} :
         /\ log' = Append(log, Entry("measured", e, 0))
         /\ IF Catches(loop, e)
              THEN /\ i' = i + 1
                   /\ pc' = "loop_head"
                   /\ UNCHANGED <<exc, exitcode>>
              ELSE /\ Propagate(e)
                   /\ UNCHANGED i
    /\ UNCHANGED <<run, loop, clients, closes, now, start, samples, warm,
                   report, issued, usedClosed>>

\* range(n) is exhausted.
LoopExit ==
    /\ pc = "loop_head"
    /\ i >= RequestsOf(loop)
    /\ pc' = CASE loop = "latencies" -> "statistics"
               [] loop = "original_latencies" -> "close_original"
               [] loop = "optimized_latencies" -> "close_optimized"
    /\ UNCHANGED <<run, loop, i, clients, closes, inflight, now, start, samples,
                   warm, exc, report, exitcode, log, issued, usedClosed>>

\* test_ultra_optimized, "Calculate statistics" and "Results evaluation".
Statistics ==
    /\ pc = "statistics"
    /\ LET latencies == samples["latencies"]
           avg_latency == aggregate(latencies).avg_latency
           original == Rat(OriginalLatency, 1)
           target == Rat(TargetLatency, 1)
           improvement == RMul(RDiv(RSub(original, avg_latency), original), RInt(100))
       IN IF ~Truthy(latencies)
            THEN UNCHANGED <<report, exc>> /\ pc' = "finally"
            ELSE IF Len(latencies) = 0
              THEN /\ exc' = "ZeroDivisionError"
                   /\ pc' = "finally"
                   /\ UNCHANGED report
              ELSE /\ report' =
                        [report EXCEPT
                           !.bound = TRUE,
                           !.avg_latency = avg_latency,
                           !.min_latency = aggregate(latencies).min_latency,
                           !.max_latency = aggregate(latencies).max_latency,
                           !.verdict = IF RLeq(avg_latency, target) THEN "SUCCESS"
                                       ELSE IF RLess(avg_latency, original) THEN "PARTIAL_SUCCESS"
                                       ELSE "NO_IMPROVEMENT",
                           !.improvement = IF RLeq(avg_latency, target)
                                              \/ RLess(avg_latency, original)
                                           THEN improvement ELSE Unbound]
                   /\ pc' = "finally"
                   /\ UNCHANGED exc
    /\ UNCHANGED <<run, loop, i, clients, closes, inflight, now, start, samples,
                   warm, exitcode, log, issued, usedClosed>>

\* finally: await client.async_client.aclose(); then the coroutine ends, with
\* the pending exception if there is one.
Finally ==
    /\ pc = "finally"
    /\ clients' = aclose(clients, "client")
    /\ closes' = [closes EXCEPT !["client"] = @ + 1]
    /\ exitcode' = ExitCode(exc, report.verdict)
    /\ pc' = "done"
    /\ UNCHANGED <<run, loop, i, inflight, now, start, samples, warm, exc,
                   report, log, issued, usedClosed>>

\* await original_client.async_client.aclose()
CloseOriginal ==
    /\ pc = "close_original"
    /\ clients' = aclose(clients, "original_client")
    /\ closes' = [closes EXCEPT !["original_client"] = @ + 1]
    /\ pc' = "create_optimized"
    /\ UNCHANGED <<run, loop, i, inflight, now, start, samples, warm, exc,
                   report, exitcode, log, issued, usedClosed>>

\* await optimized_client.async_client.aclose()
CloseOptimized ==
    /\ pc = "close_optimized"
    /\ clients' = aclose(clients, "optimized_client")
    /\ closes' = [closes EXCEPT !["optimized_client"] = @ + 1]
    /\ pc' = "compare"
    /\ UNCHANGED <<run, loop, i, inflight, now, start, samples, warm, exc,
                   report, exitcode, log, issued, usedClosed>>

\* if opt_avg < orig_avg
ImprovedOrEqual(orig_avg, opt_avg) == RLeq(opt_avg, orig_avg)
Improved(orig_avg, opt_avg) == RLess(opt_avg, orig_avg)

\* benchmark_original_vs_optimized, "Compare results"; then the coroutine ends.
Compare ==
    /\ pc = "compare"
    /\ LET original_latencies == samples["original_latencies"]
           optimized_latencies == samples["optimized_latencies"]
           orig_avg == RDiv(RInt(sum(original_latencies)), RInt(Len(original_latencies)))
           opt_avg == RDiv(RInt(sum(optimized_latencies)), RInt(Len(optimized_latencies)))
           improvement == RMul(RDiv(RSub(orig_avg, opt_avg), orig_avg), RInt(100))
       IN IF ~(Truthy(original_latencies) /\ Truthy(optimized_latencies))
            THEN UNCHANGED <<report, exc>> /\ exitcode' = ExitCode(exc, report.verdict)
            ELSE IF Len(original_latencies) = 0 \/ Len(optimized_latencies) = 0
              THEN /\ exc' = "ZeroDivisionError"
                   /\ exitcode' = ExitCode("ZeroDivisionError", report.verdict)
                   /\ UNCHANGED report
              ELSE /\ report' =
                        [report EXCEPT
                           !.bound = TRUE,
                           !.orig_avg = orig_avg,
                           !.opt_avg = opt_avg,
                           !.verdict = IF Improved(orig_avg, opt_avg)
                                       THEN "IMPROVEMENT" ELSE "NO_IMPROVEMENT",
                           !.improvement = IF Improved(orig_avg, opt_avg)
                                           THEN improvement ELSE Unbound]
                   /\ exitcode' = ExitCode(exc, IF Improved(orig_avg, opt_avg)
                                                THEN "IMPROVEMENT" ELSE "NO_IMPROVEMENT")
                   /\ UNCHANGED exc
    /\ pc' = "done"
    /\ UNCHANGED <<run, loop, i, clients, closes, inflight, now, start, samples,
                   warm, log, issued, usedClosed>>

Next ==
    \/ CreateClient
    \/ CreateOriginal
    \/ CreateOptimized
    \/ WarmIssue
    \/ WarmReturn
    \/ WarmRaise
    \/ LoopIssue
    \/ LoopReturn
    \/ LoopRecord
    \/ LoopRaise
    \/ LoopExit
    \/ Statistics
    \/ Finally
    \/ CloseOriginal
    \/ CloseOptimized
    \/ Compare

Spec == Init /\ [][Next]_vars

-----------------------------------------------------------------------------
\* The statistics of test_ultra_optimized on their own, for any list of samples.

SampleLists == UNION {[1..n -> Delays] : n \in 0..MaxSamples}

InitAggregate ==
    /\ run = "test_ultra_optimized"
    /\ pc = "statistics"
    /\ loop = "latencies"
    /\ \E s \in SampleLists :
         /\ samples = [L \in Lists |-> IF L = "latencies" THEN s ELSE <<>>]
         /\ i = Len(s)
         /\ issued = [L \in Lists |-> IF L = "latencies" THEN Len(s) ELSE 0]
         /\ now = sum(s)
         /\ log = [k \in 1..Len(s) |->
                     [list |-> "latencies", kind |-> "measured", k |-> k - 1,
                      outcome |-> "ok", latency |-> s[k]]]
    /\ clients = [c \in Clients |-> IF c = "client" THEN "open" ELSE "unbuilt"]
    /\ closes = [c \in Clients |-> 0]
    /\ inflight = {}
    /\ start = 0
    /\ warm = "False"
    /\ exc = "none"
    /\ report = NoReport
    /\ exitcode = -1
    /\ usedClosed = FALSE

NextAggregate == Statistics \/ Finally

SpecAggregate == InitAggregate /\ [][NextAggregate]_vars

-----------------------------------------------------------------------------
\* Properties.

LoopsOf(r) ==
    IF r = "test_ultra_optimized" THEN {"latencies"}
    ELSE {"original_latencies", "optimized_latencies"}

Measured(L, outcomes) ==
    SelectSeq(log, LAMBDA e : e.list = L /\ e.kind = "measured" /\ e.outcome \in outcomes)

LatenciesOf(es) == [k \in 1..Len(es) |-> es[k].latency]

Failed(L) == Len(Measured(L, {"error"}))

\* C1: in every measurement loop a measured request that raises an error does
\* not abort the run: once the run is over (and was not cancelled), all n
\* requests of each of its loops have been issued.
C1_AllAttemptsMade ==
    (pc = "done" /\ exc # "cancelled") =>
        \A L \in LoopsOf(run) : issued[L] = RequestsOf(L)

\* C2: when the warm-up request raises an error, warm_up_connection returns
\* False, nothing propagates, and the run stands at the head of the measurement
\* loop with its first request still to be issued.
C2_WarmupFailureNonFatal ==
    [][(pc = "warm_await" /\ log' # log /\ log'[Len(log')].outcome = "error") =>
          /\ warm' = "False"
          /\ exc' = "none"
          /\ pc' = "loop_head"
          /\ i' < RequestsOf(loop')
          /\ issued'[loop'] = 0]_vars

C2_Witness ==
    /\ warm = "False"
    /\ Len(Measured(loop, {"ok", "error"})) = RequestsOf(loop)

\* C3: once the run is over, on whatever path, no client it constructed is
\* still open.
C3_ClientsClosedAtExit ==
    pc = "done" => \A c \in Clients : clients[c] # "open"

\* C4: at most one request is in flight; a request is issued only when none is
\* in flight and every measured request issued before has completed and, if it
\* returned, has had its end time taken and its sample recorded; the warm-up
\* request of a client has completed before its first measured request.
C4_OneInFlight ==
    /\ Cardinality(inflight) <= 1
    /\ pc \in {"warm_issue", "loop_head"} =>
          /\ inflight = {}
          /\ Len(Measured(loop, {"ok", "error", "cancelled"})) = issued[loop]
    /\ \A r \in inflight :
          (r.kind = "measured" /\ r.client # "original_client") =>
              \E k \in 1..Len(log) :
                  log[k].kind = "warmup" /\ ClientOf(log[k].list) = r.client

C4_Witness ==
    /\ \E r \in inflight : r.kind = "measured" /\ r.k = 1
    /\ Len(Measured(loop, {"ok"})) = 1

\* C5: no mean is ever computed over an empty list (no ZeroDivisionError);
\* statistics are reported only from non-empty lists, and a run that ends with
\* an empty list reports none.
C5_NoDataNoDivision ==
    /\ exc # "ZeroDivisionError"
    /\ report.bound => \A L \in LoopsOf(run) : Len(samples[L]) > 0
    /\ (pc = "done" /\ \E L \in LoopsOf(run) : Len(samples[L]) = 0) => report = NoReport

C5_Witness ==
    /\ pc = "done"
    /\ exc = "none"
    /\ samples["original_latencies"] = <<>>
    /\ Len(samples["optimized_latencies"]) > 0
    /\ report = NoReport

\* C6: each list of samples holds exactly the latencies of the measured
\* requests of its loop that returned, in request order; when the statistics are
\* computed its length is n minus the number of failed requests (5 in
\* test_ultra_optimized); the warm-up request adds no sample.
C6_SamplesAreSuccesses ==
    /\ \A L \in Lists : samples[L] = LatenciesOf(Measured(L, {"ok"}))
    /\ pc \in {"statistics", "compare"} =>
          \A L \in LoopsOf(run) : Len(samples[L]) = RequestsOf(L) - Failed(L)
    /\ (pc = "statistics" /\ Failed("latencies") = 0) =>
          Len(samples["latencies"]) = UltraRequests

C6_Witness ==
    /\ pc = "compare"
    /\ Failed("optimized_latencies") = 1
    /\ Len(samples["optimized_latencies"]) = 2
    /\ samples["optimized_latencies"][1] # samples["optimized_latencies"][2]
    /\ warm = "True"

\* C7: the statistics of a non-empty list satisfy min <= mean <= max, that is
\* min * count <= sum <= max * count, and those of a single sample s are
\* min = max = mean = s.
C7_MinMeanMax ==
    report.bound =>
        LET s == samples["latencies"]
            count == Len(s)
        IN /\ count > 0
           /\ report.min_latency * count <= sum(s)
           /\ sum(s) <= report.max_latency * count
           /\ REq(report.avg_latency, Rat(sum(s), count))
           /\ RLeq(RInt(report.min_latency), report.avg_latency)
           /\ RLeq(report.avg_latency, RInt(report.max_latency))
           /\ \E k \in 1..count : report.min_latency = s[k]
           /\ \E k \in 1..count : report.max_latency = s[k]
           /\ count = 1 =>
                 /\ report.min_latency = s[1]
                 /\ report.max_latency = s[1]
                 /\ REq(report.avg_latency, RInt(s[1]))

C7_Witness ==
    /\ report.bound
    /\ Len(samples["latencies"]) = 2
    /\ report.min_latency < report.max_latency

\* C8: the optimized client B is reported improved over the original A exactly
\* when B.mean < A.mean, the percentage reported is (A.mean - B.mean) / A.mean *
\* 100, and it is 50 when B.mean is half of A.mean; in test_ultra_optimized A is
\* the fixed 0.21 s.
C8_Compare ==
    report.bound =>
        IF run = "benchmark_original_vs_optimized"
        THEN LET sa == sum(samples["original_latencies"])
                 na == Len(samples["original_latencies"])
                 sb == sum(samples["optimized_latencies"])
                 nb == Len(samples["optimized_latencies"])
             IN /\ (report.verdict = "IMPROVEMENT") <=> (sb * na < sa * nb)
                /\ (report.verdict # "IMPROVEMENT") <=> (report.improvement = Unbound)
                /\ report.verdict = "IMPROVEMENT" =>
                      /\ report.improvement.den # 0
                      /\ report.improvement.num * (sa * nb) =
                             (sa * nb - sb * na) * 100 * report.improvement.den
                /\ (2 * sb * na = sa * nb) =>
                      /\ report.verdict = "IMPROVEMENT"
                      /\ REq(report.improvement, RInt(50))
        ELSE LET sb == sum(samples["latencies"])
                 nb == Len(samples["latencies"])
             IN /\ (report.verdict \in {"SUCCESS", "PARTIAL_SUCCESS"}) <=>
                       (sb < OriginalLatency * nb)
                /\ (report.verdict = "NO_IMPROVEMENT") <=> (report.improvement = Unbound)
                /\ report.verdict # "NO_IMPROVEMENT" =>
                      /\ report.improvement.den # 0
                      /\ report.improvement.num * (OriginalLatency * nb) =
                             (OriginalLatency * nb - sb) * 100 * report.improvement.den

C8_Witness ==
    /\ run = "benchmark_original_vs_optimized"
    /\ report.verdict = "IMPROVEMENT"
    /\ Len(samples["original_latencies"]) # Len(samples["optimized_latencies"])
    /\ report.improvement.den # 0
    /\ REq(report.improvement, RInt(50))

\* C9: the entry point, test_ultra_optimized, ends with exit status 0 whatever
\* the verdict, and with a non-zero status only when an exception escaped it;
\* the status is known exactly when the run is over.
C9_ExitStatus ==
    run = "test_ultra_optimized" =>
        /\ (pc = "done") <=> (exitcode # -1)
        /\ pc = "done" =>
              /\ (exitcode = 0) <=> (exc = "none")
              /\ exitcode \in {0, 1}
              /\ report.verdict \in {"SUCCESS", "PARTIAL_SUCCESS", "NO_IMPROVEMENT"} =>
                    exitcode = 0

C9_Witness ==
    /\ run = "test_ultra_optimized"
    /\ pc = "done"
    /\ report.verdict = "NO_IMPROVEMENT"
    /\ exitcode = 0

\* C10: no request is issued through a client that is not open, a client is
\* closed at most once and only when none of its requests is in flight, the
\* original client is closed before the optimized one is constructed, and at
\* most one client is open at a time.
C10_NoUseAfterClose ==
    /\ ~usedClosed
    /\ \A r \in inflight : clients[r.client] = "open"
    /\ \A c \in Clients : closes[c] <= 1 /\ (clients[c] = "closed" <=> closes[c] = 1)
    /\ Cardinality({c \in Clients : clients[c] = "open"}) <= 1
    /\ clients["optimized_client"] # "unbuilt" => clients["original_client"] = "closed"
    /\ clients["client"] = "closed" => pc = "done"

C10_Witness ==
    /\ clients["original_client"] = "closed"
    /\ clients["optimized_client"] = "open"
    /\ \E r \in inflight : r.client = "optimized_client" /\ r.kind = "measured"

====
